---- MODULE Spec2Model ----
(***************************************************************************)
(* A model of src/google_voice_history.py: one run of the script that     *)
(* turns a Google Voice Takeout archive into a CSV of call history.       *)
(*                                                                         *)
(* Strings are sequences of tokens.  A token is a piece of text the code   *)
(* never looks inside of, except for digit runs (DigitWidth) and for the   *)
(* one-character tokens of a timestamp, which are compared by code point.  *)
(* An optional value (None or a value, a missing or a present dict key)    *)
(* is a sequence of length at most one: None is << >>, v is <<v>>.         *)
(***************************************************************************)
EXTENDS Integers, Sequences, FiniteSets, TLC

\* ------------------------------------------------------------- bounds
\* The largest number of members of the archive.
MaxMembers == 2

\* ------------------------------------------------------------- values
None == << >>

Some(v) == <<v>>

\* The tokens of the pattern's literals.
ROOT == "Takeout/Voice/"

SLASH == "/"

SEP == " - "

HTML == ".html"

\* \d{10}: the length of the digit run that makes a contact a number.
DigitRun == 10

\* The number of digits of a token ("5551234567" is ten digits, "555" three,
\* every other token holds none).
DigitWidth(tok) ==
  CASE tok = "5551234567" -> 10
    [] tok = "6175550000" -> 10
    [] tok = "555" -> 3
    [] OTHER -> 0

\* The code point of a one-character token; a longer token is ordered by its
\* first character.
Ord(tok) ==
  CASE tok = "+" -> 43
    [] tok = "0" -> 48
    [] tok = "1" -> 49
    [] tok = "2" -> 50
    [] tok = ":" -> 58
    [] tok = "Z" -> 90
    [] tok = "_" -> 95
    [] OTHER -> 120

\* Python's str < str: lexicographic by code point, a proper prefix first.
RECURSIVE StrLess(_, _)
StrLess(a, b) ==
  IF b = << >> THEN FALSE
  ELSE IF a = << >> THEN TRUE
  ELSE IF Ord(Head(a)) # Ord(Head(b)) THEN Ord(Head(a)) < Ord(Head(b))
  ELSE StrLess(Tail(a), Tail(b))

\* str.replace(old, new) for a one-token old and a new of any length.
RECURSIVE Replace(_, _, _)
Replace(s, old, new) ==
  IF s = << >> THEN << >>
  ELSE (IF Head(s) = old THEN new ELSE <<Head(s)>>) \o Replace(Tail(s), old, new)

\* ------------------------------------------------------------- CALL_PATTERN
\* re.match(CALL_PATTERN, filename), anchored at the start only.  After the
\* prefix f[1..3], a split (i, j, k) of the filename f has its first separator
\* at f[i], its second at f[j] and the ".html" that ends the match at f[k]:
\* contact is f[4..i-1] (may be empty), type f[i+1..j-1] and timestamp
\* f[j+1..k-1] (one token or more each).
HasPrefix(f) ==
  /\ Len(f) >= 3
  /\ f[1] = ROOT
  /\ f[2] \in {"Calls", "Spam"}
  /\ f[3] = SLASH

SepAt(f) == {i \in 4..Len(f) : f[i] = SEP}

HtmlAt(f) == {k \in 4..Len(f) : f[k] = HTML}

\* The ends a type starting after the separator at i can take.
TypeEnds(f, i) == {j \in SepAt(f) : j > i + 1 /\ \E k \in HtmlAt(f) : k > j + 1}

ContactEnds(f) == {i \in SepAt(f) : TypeEnds(f, i) # {}}

Matches(f) == HasPrefix(f) /\ ContactEnds(f) # {}

Least(S) == CHOOSE x \in S : \A y \in S : x <= y

Greatest(S) == CHOOSE x \in S : \A y \in S : x >= y

\* The split of a pattern whose type group is greedy, (?P<type>.+).
FirstSplit_greedy_type(f) ==
  LET i == Least(ContactEnds(f))
      j == Greatest(TypeEnds(f, i))
      k == Least({x \in HtmlAt(f) : x > j + 1})
  IN <<i, j, k>>

\* The backtracking order of the three lazy groups: the shortest contact that
\* lets the rest match, then the shortest type, then the shortest timestamp.
FirstSplit(f) ==
  LET i == Least(ContactEnds(f))
      j == Least(TypeEnds(f, i))
      k == Least({x \in HtmlAt(f) : x > j + 1})
  IN <<i, j, k>>

\* match.groupdict()
GroupDict(f) ==
  LET s == FirstSplit(f)
  IN [directory |-> <<f[2]>>,
      contact   |-> SubSeq(f, 4, s[1] - 1),
      type      |-> SubSeq(f, s[1] + 1, s[2] - 1),
      timestamp |-> SubSeq(f, s[2] + 1, s[3] - 1)]

\* ------------------------------------------------------------- formatters
format_timestamp(timestamp) ==
  Replace(Replace(timestamp, "_", <<":">>), "Z", <<"+", "0", "0", ":", "0", "0">>)

\* re.search(r"\d{10}", contact) is not None: some run of adjacent digit
\* tokens holds DigitRun digits or more.
RECURSIVE LongestDigitRun(_, _, _)
LongestDigitRun(s, run, best) ==
  IF s = << >> THEN best
  ELSE LET w == DigitWidth(Head(s))
           r == IF w = 0 THEN 0 ELSE run + w
       IN LongestDigitRun(Tail(s), r, IF r > best THEN r ELSE best)

IsNumber(contact) == LongestDigitRun(contact, 0, 0) >= DigitRun

\* ------------------------------------------------------------- anonymize
\* hashlib.blake2b(value, digest_size=5).hexdigest(): a fixed function of the
\* value onto 40 bits, so distinct values can share a digest.  The model's
\* function sends the values it uses onto three digests.
TokenCode(tok) ==
  CASE tok = "Ann" -> 1
    [] tok = "Bob" -> 4
    [] tok = "Cy" -> 2
    [] tok = "5551234567" -> 3
    [] tok = "6175550000" -> 5
    [] tok = "555" -> 6
    [] OTHER -> 7

RECURSIVE CodeSum(_)
CodeSum(value) ==
  IF value = << >> THEN 0 ELSE TokenCode(Head(value)) + CodeSum(Tail(value))

blake2b(value) ==
  CASE CodeSum(value) % 3 = 0 -> <<"0f3a91c2d4">>
    [] CodeSum(value) % 3 = 1 -> <<"71be02a9c5">>
    [] OTHER -> <<"c48d55e01b">>

\* dict.setdefault(digest, value) on ANONYMIZED_VALUES: the table afterwards.
setdefault_overwrite(table, digest, value) ==
  [d \in DOMAIN table \cup {digest} |-> IF d = digest THEN value ELSE table[d]]

setdefault(table, digest, value) ==
  IF digest \in DOMAIN table
  THEN table
  ELSE [d \in DOMAIN table \cup {digest} |-> IF d = digest THEN value ELSE table[d]]

\* The body of anonymize: the digest, the table afterwards, and whether the
\* ValueError("Duplicate anonymization for ...") is raised.
anonymize_body(table, value) ==
  LET digest == blake2b(value)
      after == setdefault(table, digest, value)
      current_value == after[digest]
  IN [raised  |-> current_value # value,
      digest  |-> digest,
      table   |-> after,
      current |-> current_value]

\* functools.lru_cache(): maxsize defaults to 128.
lru_maxsize == 128

CacheKeys(cache) == {cache[n][1] : n \in 1..Len(cache)}

CacheGet_last(cache, value) == cache[Len(cache)][2]

CacheGet(cache, value) ==
  LET n == CHOOSE m \in 1..Len(cache) : cache[m][1] = value IN cache[n][2]

\* A hit moves the entry to the most recently used end.
CacheTouch(cache, value) ==
  LET n == CHOOSE m \in 1..Len(cache) : cache[m][1] = value
  IN SubSeq(cache, 1, n - 1) \o SubSeq(cache, n + 1, Len(cache)) \o <<cache[n]>>

\* A miss stores the result and evicts the least recently used entry.
CachePut(cache, value, result) ==
  LET full == Append(cache, <<value, result>>)
  IN IF Len(full) > lru_maxsize THEN Tail(full) ELSE full

\* anonymize as called: served from the cache, or computed and, unless it
\* raised, cached.
anonymize(table, cache, value) ==
  IF value \in CacheKeys(cache)
  THEN [raised  |-> FALSE,
        digest  |-> CacheGet(cache, value),
        table   |-> table,
        cache   |-> CacheTouch(cache, value),
        current |-> value]
  ELSE LET b == anonymize_body(table, value)
       IN [raised  |-> b.raised,
           digest  |-> b.digest,
           table   |-> b.table,
           cache   |-> IF b.raised THEN cache ELSE CachePut(cache, value, b.digest),
           current |-> b.current]

\* ------------------------------------------------------------- format_contact
\* The counters a call of format_contact increments besides "total".
CountedAs_both(contact) ==
  (IF IsNumber(contact) THEN {"numbers"} ELSE {})
    \cup (IF contact # << >> THEN {"names"} ELSE {"missing"})

CountedAs(contact) ==
  IF IsNumber(contact) THEN {"numbers"}
  ELSE IF contact # << >> THEN {"names"}
  ELSE {"missing"}

CountContact(stats, contact) ==
  [k \in DOMAIN stats |->
     IF k = "total" \/ k \in CountedAs(contact) THEN stats[k] + 1 ELSE stats[k]]

\* "contact_name": contact if not is_number else None
contact_name_always(contact) == Some(contact)

contact_name(contact) == IF ~IsNumber(contact) THEN Some(contact) ELSE None

\* format_contact: the counters are incremented before anonymize is called,
\* and anonymize is called for a non-empty contact only.
format_contact(stats, table, cache, contact) ==
  LET counted == CountContact(stats, contact)
      a == anonymize(table, cache, contact)
  IN IF contact # << >>
     THEN [raised       |-> a.raised,
           stats        |-> counted,
           table        |-> a.table,
           cache        |-> a.cache,
           contact_id   |-> IF a.raised THEN None ELSE Some(a.digest),
           contact_name |-> contact_name(contact),
           current      |-> a.current]
     ELSE [raised       |-> FALSE,
           stats        |-> counted,
           table        |-> table,
           cache        |-> cache,
           contact_id   |-> None,
           contact_name |-> contact_name(contact),
           current      |-> contact]

\* ------------------------------------------------------------- datetime
\* An ISO 8601 text is <<date, "T", time, offset>>; anything else (the empty
\* string included) is no ISO 8601 text.
DateOrdinal(tok) ==
  CASE tok = "2020-06-22" -> 737598
    [] tok = "2020-06-23" -> 737599
    [] tok = "2020-06-24" -> 737600
    [] OTHER -> -1

OrdinalDate(n) ==
  CASE n = 737598 -> "2020-06-22"
    [] n = 737599 -> "2020-06-23"
    [] n = 737600 -> "2020-06-24"
    [] OTHER -> "?"

\* The minutes since midnight of a time of day.
TimeMinutes(tok) ==
  CASE tok = "00:05:00.000" -> 5
    [] tok = "12:40:38.000" -> 760
    [] tok = "21:10:00.971" -> 1270
    [] OTHER -> -1

\* The minutes east of UTC of an offset.
OffsetMinutes(tok) ==
  CASE tok = "-04:00" -> -240
    [] tok = "+05:30" -> 330
    [] OTHER -> 0

IsIsoFormat(text) ==
  /\ Len(text) = 4
  /\ DateOrdinal(text[1]) >= 0
  /\ text[2] = "T"
  /\ TimeMinutes(text[3]) >= 0
  /\ text[4] \in {"-04:00", "+05:30", "+00:00"}

\* datetime.fromisoformat(text), for a text it accepts.
fromisoformat(text) ==
  [day    |-> DateOrdinal(text[1]),
   minute |-> TimeMinutes(text[3]),
   offset |-> OffsetMinutes(text[4])]

\* (last - first).days for two aware datetimes: the difference of the UTC
\* instants, floored to whole days.
UtcMinutes(dt) == dt.day * 1440 + dt.minute - dt.offset

DeltaDays_calendar(last, first) == last.day - first.day

DeltaDays(last, first) == (UtcMinutes(last) - UtcMinutes(first)) \div 1440

Digit(d) ==
  CASE d = 0 -> "0" [] d = 1 -> "1" [] d = 2 -> "2" [] d = 3 -> "3"
    [] d = 4 -> "4" [] d = 5 -> "5" [] d = 6 -> "6" [] d = 7 -> "7"
    [] d = 8 -> "8" [] OTHER -> "9"

TwoDigits(n) == <<Digit(n \div 10), Digit(n % 10)>>

\* format_datetime: strftime("%Y-%m-%d") and strftime("%I:%M %p") of the
\* datetime's own wall clock; no keys at all for None.
format_datetime(dt) ==
  IF dt = None
  THEN [date |-> None, time |-> None]
  ELSE LET d == dt[1]
           hour == d.minute \div 60
           hour12 == IF hour % 12 = 0 THEN 12 ELSE hour % 12
       IN [date |-> Some(<<OrdinalDate(d.day)>>),
           time |-> Some(TwoDigits(hour12) \o <<":">> \o TwoDigits(d.minute % 60)
                         \o <<" ", IF hour < 12 THEN "AM" ELSE "PM">>)]

\* ------------------------------------------------------------- parse_file
\* An element's "title" attribute: element.get("title", "") is the empty
\* string for an element without the attribute.
GetTitle(element) == IF element.title = None THEN << >> ELSE element.title[1]

\* xml.find(".//*[@class='published']") and find(".//*[@class='dt']"): the
\* parsed datetime, None without the element, and whether fromisoformat raises
\* its ValueError("Invalid isoformat string").
parse_datetime_lenient(found) ==
  IF found = None \/ found[1].title = None
  THEN [raised |-> FALSE, dt |-> None, text |-> << >>]
  ELSE IF IsIsoFormat(GetTitle(found[1]))
  THEN [raised |-> FALSE, dt |-> Some(fromisoformat(GetTitle(found[1]))), text |-> << >>]
  ELSE [raised |-> TRUE, dt |-> None, text |-> GetTitle(found[1])]

parse_datetime(found) ==
  IF found = None
  THEN [raised |-> FALSE, dt |-> None, text |-> << >>]
  ELSE IF IsIsoFormat(GetTitle(found[1]))
  THEN [raised |-> FALSE, dt |-> Some(fromisoformat(GetTitle(found[1]))), text |-> << >>]
  ELSE [raised |-> TRUE, dt |-> None, text |-> GetTitle(found[1])]

parse_call_datetime(xml) == parse_datetime(xml.published)

parse_message_datetime(message) == parse_datetime(message.dt)

\* element.text.strip("()")
RECURSIVE LStrip(_)
LStrip(text) ==
  IF text # << >> /\ Head(text) \in {"(", ")"} THEN LStrip(Tail(text)) ELSE text

RECURSIVE RStrip(_)
RStrip(text) ==
  IF text # << >> /\ text[Len(text)] \in {"(", ")"}
  THEN RStrip(SubSeq(text, 1, Len(text) - 1))
  ELSE text

parse_call_duration(xml) ==
  IF xml.duration = None \/ xml.duration[1].text = None
  THEN None
  ELSE Some(RStrip(LStrip(xml.duration[1].text[1])))

NoMessageFields ==
  [raised |-> FALSE, text |-> << >>, has_datetime |-> FALSE,
   date |-> None, time |-> None, message_days |-> None, message_count |-> None]

\* parse_messages without its second early return.
parse_messages_partial(xml) ==
  LET messages == xml.messages
      first == parse_message_datetime(messages[1])
      last == parse_message_datetime(messages[Len(messages)])
  IN IF messages = << >> THEN NoMessageFields
     ELSE IF first.raised THEN [NoMessageFields EXCEPT !.raised = TRUE, !.text = first.text]
     ELSE IF last.raised THEN [NoMessageFields EXCEPT !.raised = TRUE, !.text = last.text]
     ELSE [raised |-> FALSE, text |-> << >>,
           has_datetime |-> first.dt # None,
           date |-> format_datetime(first.dt).date,
           time |-> format_datetime(first.dt).time,
           message_days |-> IF first.dt = None \/ last.dt = None THEN None
                            ELSE Some(DeltaDays(last.dt[1], first.dt[1])),
           message_count |-> Some(Len(messages))]

\* parse_messages: no keys without messages or without both datetimes.
parse_messages(xml) ==
  LET messages == xml.messages
      first == parse_message_datetime(messages[1])
      last == parse_message_datetime(messages[Len(messages)])
  IN IF messages = << >> THEN NoMessageFields
     ELSE IF first.raised THEN [NoMessageFields EXCEPT !.raised = TRUE, !.text = first.text]
     ELSE IF last.raised THEN [NoMessageFields EXCEPT !.raised = TRUE, !.text = last.text]
     ELSE IF first.dt = None \/ last.dt = None THEN NoMessageFields
     ELSE [raised |-> FALSE, text |-> << >>,
           has_datetime |-> TRUE,
           date |-> format_datetime(first.dt).date,
           time |-> format_datetime(first.dt).time,
           message_days |-> Some(DeltaDays(last.dt[1], first.dt[1])),
           message_count |-> Some(Len(messages))]

\* content.replace("<br>", "").replace("&", ""): a document whose only
\* faults are <br> tags and bare ampersands becomes well-formed.
Sanitize(markup) == IF markup = "br-and-amp" THEN "well-formed" ELSE markup

\* ET.fromstring raises ParseError on anything but a well-formed document.
ParseError(markup) == Sanitize(markup) # "well-formed"

NoError == [kind |-> "none", paths |-> << >>, values |-> << >>, text |-> << >>]

\* ValueError(f"Error parsing {filename}")
MarkupError_nopath(filename) ==
  [kind |-> "markup", paths |-> << >>, values |-> << >>, text |-> << >>]

MarkupError(filename) ==
  [kind |-> "markup", paths |-> <<filename>>, values |-> << >>, text |-> << >>]

\* ValueError(f"Invalid isoformat string: {text!r}"), raised by fromisoformat
\* outside the try block of parse_file.
TimestampError(text) ==
  [kind |-> "timestamp", paths |-> << >>, values |-> << >>, text |-> text]

\* ValueError(f"Duplicate anonymization for {current_value} and {value}")
CollisionError(current_value, value) ==
  [kind |-> "collision", paths |-> << >>, values |-> <<current_value, value>>,
   text |-> << >>]

\* ValueError(f"Total contacts ({total}) != sum of each type ({contact_total})")
StatsError == [kind |-> "stats", paths |-> << >>, values |-> << >>, text |-> << >>]

\* ZipFile.read on a closed archive:
\* ValueError("Attempt to use ZIP archive that was already closed")
ClosedError == [kind |-> "closed", paths |-> << >>, values |-> << >>, text |-> << >>]

NoFileFields ==
  [call_duration |-> None, date |-> None, time |-> None,
   message_days |-> None, message_count |-> None]

\* parse_file: the keys of the record that come from the member's markup, or
\* the error raised.  The dict is built left to right: the duration, the
\* published datetime, then the messages, whose date and time win.
parse_file(filename, content) ==
  LET xml == content.xml
      published == parse_call_datetime(xml)
      messages == parse_messages(xml)
      call == format_datetime(published.dt)
  IN IF ParseError(content.markup)
     THEN [raised |-> TRUE, error |-> MarkupError(filename), fields |-> NoFileFields]
     ELSE IF published.raised
     THEN [raised |-> TRUE, error |-> TimestampError(published.text),
           fields |-> NoFileFields]
     ELSE IF messages.raised
     THEN [raised |-> TRUE, error |-> TimestampError(messages.text),
           fields |-> NoFileFields]
     ELSE [raised |-> FALSE, error |-> NoError,
           fields |->
             [call_duration |-> parse_call_duration(xml),
              date |-> IF messages.has_datetime THEN messages.date ELSE call.date,
              time |-> IF messages.has_datetime THEN messages.time ELSE call.time,
              message_days |-> messages.message_days,
              message_count |-> messages.message_count]]

\* ------------------------------------------------------------- sorted
\* sorted(calls, key=itemgetter("timestamp")): a stable sort that compares
\* keys with < only.  A record goes before the first one of a greater key.
RECURSIVE Insert_unstable(_, _)
Insert_unstable(sorted, call) ==
  IF sorted = << >> THEN <<call>>
  ELSE IF ~StrLess(Head(sorted).timestamp, call.timestamp)
  THEN <<call>> \o sorted
  ELSE <<Head(sorted)>> \o Insert_unstable(Tail(sorted), call)

RECURSIVE InsertCall(_, _)
InsertCall(sorted, call) ==
  IF sorted = << >> THEN <<call>>
  ELSE IF StrLess(call.timestamp, Head(sorted).timestamp)
  THEN <<call>> \o sorted
  ELSE <<Head(sorted)>> \o InsertCall(Tail(sorted), call)

RECURSIVE SortedCalls(_)
SortedCalls(calls) ==
  IF calls = << >> THEN << >>
  ELSE InsertCall(SortedCalls(SubSeq(calls, 1, Len(calls) - 1)), calls[Len(calls)])

\* ------------------------------------------------------------- write_csv
CALL_FIELDS ==
  <<"timestamp", "date", "time", "type", "contact_id", "contact_name",
    "call_duration", "message_days", "message_count">>

\* str(n) of an integer.
RECURSIVE NatStr(_)
NatStr(n) == IF n < 10 THEN <<Digit(n)>> ELSE NatStr(n \div 10) \o <<Digit(n % 10)>>

IntStr(n) == IF n < 0 THEN <<"-">> \o NatStr(-n) ELSE NatStr(n)

\* The csv module writes None as the empty string.
Cell(value) == IF value = None THEN << >> ELSE value[1]

IntCell(value) == IF value = None THEN << >> ELSE IntStr(value[1])

HeaderRow == [n \in 1..Len(CALL_FIELDS) |-> <<CALL_FIELDS[n]>>]

\* DictWriter.writerow with extrasaction="ignore": the CALL_FIELDS columns in
\* order; "filename", "directory" and "contact" are dropped.
Row(call) ==
  <<call.timestamp, Cell(call.date), Cell(call.time), call.type,
    Cell(call.contact_id), Cell(call.contact_name), Cell(call.call_duration),
    IntCell(call.message_days), IntCell(call.message_count)>>

\* ------------------------------------------------------------- the archive
\* The timestamps of the filenames.
TsEarly == <<"1", "_", "0", "Z">>

TsLate == <<"2", "_", "0", "Z">>

Filename(directory, contact, type, timestamp) ==
  <<ROOT, directory, SLASH>> \o contact \o <<SEP>> \o type \o <<SEP>> \o timestamp
    \o <<HTML>>

FileAnn == Filename("Calls", <<"Ann">>, <<"Missed">>, TsLate)

FileBob == Filename("Calls", <<"Bob">>, <<"Received">>, TsEarly)

FileNumber == Filename("Spam", <<"5551234567">>, <<"Text">>, TsLate)

FileNoContact == Filename("Calls", << >>, <<"Voicemail">>, TsEarly)

FileShortDigits == Filename("Calls", <<"555">>, <<"Placed">>, TsEarly)

FileGroup == Filename("Calls", <<"Cy">>, <<"Group", SEP, "Text">>, TsLate)

FileGreeting == Filename("Greetings", <<"Ann">>, <<"Greeting">>, TsEarly)

FileBills == <<"Takeout/", "Bills", HTML>>

Filenames ==
  {FileAnn, FileBob, FileNumber, FileNoContact, FileShortDigits, FileGroup,
   FileGreeting, FileBills}

Iso(date, time, offset) == <<date, "T", time, offset>>

Element(title) == Some([title |-> title])

NoXml == [duration |-> None, published |-> None, messages |-> << >>]

Duration == Some([text |-> Some(<<"(", "00:02:23", ")">>)])

Published == Element(Some(Iso("2020-06-22", "12:40:38.000", "-04:00")))

Message(date, time, offset) == [dt |-> Element(Some(Iso(date, time, offset)))]

Thread ==
  <<Message("2020-06-22", "21:10:00.971", "-04:00"),
    Message("2020-06-24", "00:05:00.000", "-04:00"),
    Message("2020-06-24", "21:10:00.971", "+05:30")>>

Doc(markup, xml) == [markup |-> markup, xml |-> xml]

\* The markup of the members: a call, a missed call, a thread, and the
\* irregular documents.
Contents ==
  {Doc("well-formed", [NoXml EXCEPT !.duration = Duration, !.published = Published]),
   Doc("br-and-amp", [NoXml EXCEPT !.published = Published]),
   Doc("br-and-amp", [NoXml EXCEPT !.messages = Thread]),
   Doc("well-formed", [NoXml EXCEPT !.messages = <<Thread[3], Thread[1]>>]),
   Doc("well-formed", [NoXml EXCEPT !.messages =
          <<Thread[1], Message("2020-06-23", "00:05:00.000", "-04:00")>>]),
   Doc("well-formed", [NoXml EXCEPT !.duration = Duration, !.published = Published,
                                    !.messages = Thread]),
   Doc("well-formed", NoXml),
   Doc("well-formed", [NoXml EXCEPT !.duration = Some([text |-> None])]),
   Doc("well-formed", [NoXml EXCEPT !.published = Element(None)]),
   Doc("well-formed", [NoXml EXCEPT !.published = Element(Some(<<"Jun 14, 2020">>))]),
   Doc("well-formed", [NoXml EXCEPT !.messages = <<[dt |-> None], Thread[2]>>]),
   Doc("well-formed", [NoXml EXCEPT !.messages = <<Thread[1], [dt |-> Element(None)]>>]),
   Doc("unclosed", [NoXml EXCEPT !.published = Published])}

CallDoc == Doc("well-formed", [NoXml EXCEPT !.duration = Duration, !.published = Published])

ThreadDoc == Doc("br-and-amp", [NoXml EXCEPT !.messages = Thread])

\* The members an archive is made of: every filename with a call's markup, the
\* contacts with a thread's, and one filename with every markup.
Members ==
  {[name |-> f, content |-> CallDoc] : f \in Filenames}
    \cup {[name |-> f, content |-> ThreadDoc] : f \in {FileBob, FileNumber, FileNoContact}}
    \cup {[name |-> FileAnn, content |-> c] : c \in Contents}

Archives == UNION {[1..n -> Members] : n \in 0..MaxMembers}

\* ------------------------------------------------------------- the run
VARIABLES
  archive,            \* the members of the Takeout, in namelist() order
  pc,                 \* where the run is
  index,              \* the next member match_calls looks at
  opened,             \* whether the ZipFile handle is open
  opens,              \* how many times the archive was opened
  yielded,            \* the records parse_calls has yielded to sorted()
  calls,              \* the list parse_takeout returns
  CONTACT_STATS,
  ANONYMIZED_VALUES,
  cache,              \* the lru_cache of anonymize, least recently used first
  stdout,             \* the CSV rows written
  devnull,            \* whether stdout was redirected to os.devnull
  stderr,             \* the error reported, NoError if none
  exit_code           \* the exit status, None while running

vars ==
  <<archive, pc, index, opened, opens, yielded, calls, CONTACT_STATS,
    ANONYMIZED_VALUES, cache, stdout, devnull, stderr, exit_code>>

Init ==
  /\ archive \in Archives
  /\ pc = "start"
  /\ index = 1
  /\ opened = FALSE
  /\ opens = 0
  /\ yielded = << >>
  /\ calls = << >>
  /\ CONTACT_STATS = [total |-> 0, missing |-> 0, numbers |-> 0, names |-> 0]
  /\ ANONYMIZED_VALUES = << >>
  /\ cache = << >>
  /\ stdout = << >>
  /\ devnull = FALSE
  /\ stderr = NoError
  /\ exit_code = None

\* The with statement's exit, on a return and on an exception alike:
\* ZipFile.__exit__ closes the handle.
with_exit_leak(handle) == handle

with_exit(handle) == FALSE

\* sorted() pulls the record out of the generator into its list; nothing is
\* written before parse_takeout returns.
Consume_streaming(records, out, call) ==
  [yielded |-> Append(records, call), stdout |-> Append(out, Row(call))]

Consume(records, out, call) ==
  [yielded |-> Append(records, call), stdout |-> out]

\* pipeable: BrokenPipeError is caught, stdout goes to os.devnull and the
\* script exits with status 1 and no message.  Any other exception leaves main
\* uncaught: the interpreter prints it and exits with status 1.
pipeable_uncaught(exception) == [silenced |-> FALSE, devnull |-> FALSE, status |-> 1]

pipeable(exception) ==
  IF exception = "BrokenPipeError"
  THEN [silenced |-> TRUE, devnull |-> TRUE, status |-> 1]
  ELSE [silenced |-> FALSE, devnull |-> FALSE, status |-> 1]

BrokenPipeMessage ==
  [kind |-> "broken pipe", paths |-> << >>, values |-> << >>, text |-> << >>]

\* A ValueError raised inside the with block of parse_takeout.
RaiseInWith(error) ==
  /\ pc' = "failed"
  /\ opened' = with_exit(opened)
  /\ stderr' = error
  /\ devnull' = (devnull \/ pipeable("ValueError").devnull)
  /\ exit_code' = Some(pipeable("ValueError").status)

\* zipfile.ZipFile(path), takeout.namelist(); the two generators are made and
\* nothing is pulled from them yet.
OpenTakeout ==
  /\ pc = "start"
  /\ pc' = "parse_calls"
  /\ opened' = TRUE
  /\ opens' = opens + 1
  /\ UNCHANGED <<archive, index, yielded, calls, CONTACT_STATS, ANONYMIZED_VALUES,
                 cache, stdout, devnull, stderr, exit_code>>

\* match_calls: a filename that does not match is skipped.
SkipFile ==
  /\ pc = "parse_calls"
  /\ index <= Len(archive)
  /\ ~Matches(archive[index].name)
  /\ index' = index + 1
  /\ UNCHANGED <<archive, pc, opened, opens, yielded, calls, CONTACT_STATS,
                 ANONYMIZED_VALUES, cache, stdout, devnull, stderr, exit_code>>

\* The record parse_calls builds: the match's groups, the formatted timestamp,
\* the contact's keys and the file's keys.
CallDict(filename, groups, contact, file) ==
  [filename      |-> filename,
   directory     |-> groups.directory,
   contact       |-> groups.contact,
   type          |-> groups.type,
   timestamp     |-> format_timestamp(groups.timestamp),
   contact_id    |-> contact.contact_id,
   contact_name  |-> contact.contact_name,
   call_duration |-> file.call_duration,
   date          |-> file.date,
   time          |-> file.time,
   message_days  |-> file.message_days,
   message_count |-> file.message_count]

\* One pull of sorted() on parse_calls for a matching filename:
\* format_timestamp, format_contact, then parse_file, which reads the member.
ParseCall ==
  /\ pc = "parse_calls"
  /\ index <= Len(archive)
  /\ Matches(archive[index].name)
  /\ LET member == archive[index]
         groups == GroupDict(member.name)
         contact == format_contact(CONTACT_STATS, ANONYMIZED_VALUES, cache,
                                   groups.contact)
         file == parse_file(member.name, member.content)
         next == Consume(yielded, stdout,
                         CallDict(member.name, groups, contact, file.fields))
     IN /\ CONTACT_STATS' = contact.stats
        /\ ANONYMIZED_VALUES' = contact.table
        /\ cache' = contact.cache
        /\ IF contact.raised
           THEN /\ RaiseInWith(CollisionError(contact.current, groups.contact))
                /\ UNCHANGED <<index, yielded, stdout>>
           ELSE IF ~opened
           THEN /\ RaiseInWith(ClosedError)
                /\ UNCHANGED <<index, yielded, stdout>>
           ELSE IF file.raised
           THEN /\ RaiseInWith(file.error)
                /\ UNCHANGED <<index, yielded, stdout>>
           ELSE /\ index' = index + 1
                /\ yielded' = next.yielded
                /\ stdout' = next.stdout
                /\ UNCHANGED <<pc, opened, devnull, stderr, exit_code>>
  /\ UNCHANGED <<archive, opens, calls>>

\* The generators are exhausted: sorted() returns and the with block ends.
SortCalls ==
  /\ pc = "parse_calls"
  /\ index > Len(archive)
  /\ calls' = SortedCalls(yielded)
  /\ opened' = with_exit(opened)
  /\ pc' = "check_stats"
  /\ UNCHANGED <<archive, index, opens, yielded, CONTACT_STATS, ANONYMIZED_VALUES,
                 cache, stdout, devnull, stderr, exit_code>>

\* The end of parse_takeout: the counters are checked and the list returned.
CheckStats ==
  /\ pc = "check_stats"
  /\ LET contact_total ==
           CONTACT_STATS["missing"] + CONTACT_STATS["numbers"] + CONTACT_STATS["names"]
     IN IF contact_total # CONTACT_STATS["total"]
        THEN /\ pc' = "failed"
             /\ stderr' = StatsError
             /\ devnull' = (devnull \/ pipeable("ValueError").devnull)
             /\ exit_code' = Some(pipeable("ValueError").status)
        ELSE /\ pc' = "write_header"
             /\ UNCHANGED <<stderr, devnull, exit_code>>
  /\ UNCHANGED <<archive, index, opened, opens, yielded, calls, CONTACT_STATS,
                 ANONYMIZED_VALUES, cache, stdout>>

\* writer.writeheader()
WriteHeader ==
  /\ pc = "write_header"
  /\ stdout' = Append(stdout, HeaderRow)
  /\ pc' = "write_rows"
  /\ UNCHANGED <<archive, index, opened, opens, yielded, calls, CONTACT_STATS,
                 ANONYMIZED_VALUES, cache, devnull, stderr, exit_code>>

\* The rows written so far by writer.writerows(calls).
RowsWritten == Len(stdout) - 1

\* writer.writerows(calls), one row
WriteRow ==
  /\ pc = "write_rows"
  /\ RowsWritten < Len(calls)
  /\ stdout' = Append(stdout, Row(calls[RowsWritten + 1]))
  /\ UNCHANGED <<archive, pc, index, opened, opens, yielded, calls, CONTACT_STATS,
                 ANONYMIZED_VALUES, cache, devnull, stderr, exit_code>>

\* main returns: the script ends with status 0.
Finish ==
  /\ pc = "write_rows"
  /\ RowsWritten = Len(calls)
  /\ pc' = "done"
  /\ exit_code' = Some(0)
  /\ UNCHANGED <<archive, index, opened, opens, yielded, calls, CONTACT_STATS,
                 ANONYMIZED_VALUES, cache, stdout, devnull, stderr>>

\* The reader of stdout has gone: the write of the header or of a row raises
\* BrokenPipeError, which pipeable handles.
BrokenPipe ==
  /\ \/ pc = "write_header"
     \/ pc = "write_rows" /\ RowsWritten < Len(calls)
  /\ pc' = "exited"
  /\ devnull' = (devnull \/ pipeable("BrokenPipeError").devnull)
  /\ stderr' = IF pipeable("BrokenPipeError").silenced THEN stderr ELSE BrokenPipeMessage
  /\ exit_code' = Some(pipeable("BrokenPipeError").status)
  /\ UNCHANGED <<archive, index, opened, opens, yielded, calls, CONTACT_STATS,
                 ANONYMIZED_VALUES, cache, stdout>>

Next ==
  \/ OpenTakeout
  \/ SkipFile
  \/ ParseCall
  \/ SortCalls
  \/ CheckStats
  \/ WriteHeader
  \/ WriteRow
  \/ Finish
  \/ BrokenPipe

Spec == Init /\ [][Next]_vars

Terminal == pc \in {"done", "failed", "exited"}

\* ------------------------------------------------------------- properties
\* match_calls as a function: the members whose filenames match, in order.
RECURSIVE MatchedMembers(_)
MatchedMembers(members) ==
  IF members = << >> THEN << >>
  ELSE (IF Matches(Head(members).name) THEN <<Head(members)>> ELSE << >>)
         \o MatchedMembers(Tail(members))

\* The member the n-th yielded record was made from.
MemberOf(n) == MatchedMembers(archive)[n]

\* A matching member is about to be parsed.
AtCall ==
  /\ pc = "parse_calls"
  /\ index <= Len(archive)
  /\ Matches(archive[index].name)

ContactAtCall == GroupDict(archive[index].name).contact

ClassTotal ==
  CONTACT_STATS["missing"] + CONTACT_STATS["numbers"] + CONTACT_STATS["names"]

\* C1: the table is injective for the whole run.  Every record's identifier
\* is registered to the record's own contact, so records of distinct contacts
\* carry distinct identifiers; no step changes or removes an entry; and a call
\* for a contact whose digest is registered to another original aborts the run
\* with the collision error and yields no record.
C1_Registered ==
  \A n \in 1..Len(yielded) :
    yielded[n].contact # << >> =>
      /\ yielded[n].contact_id # None
      /\ yielded[n].contact_id[1] \in DOMAIN ANONYMIZED_VALUES
      /\ ANONYMIZED_VALUES[yielded[n].contact_id[1]] = yielded[n].contact

C1_Distinct ==
  \A m, n \in 1..Len(yielded) :
    (yielded[m].contact # << >> /\ yielded[n].contact # << >>
       /\ yielded[m].contact # yielded[n].contact)
      => yielded[m].contact_id # yielded[n].contact_id

C1_AppendOnly ==
  \A d \in DOMAIN ANONYMIZED_VALUES :
    d \in DOMAIN ANONYMIZED_VALUES' /\ ANONYMIZED_VALUES'[d] = ANONYMIZED_VALUES[d]

C1_CollisionRaises ==
  (/\ AtCall
   /\ ContactAtCall # << >>
   /\ blake2b(ContactAtCall) \in DOMAIN ANONYMIZED_VALUES
   /\ ANONYMIZED_VALUES[blake2b(ContactAtCall)] # ContactAtCall)
    => /\ pc' = "failed"
       /\ stderr' = CollisionError(ANONYMIZED_VALUES[blake2b(ContactAtCall)],
                                   ContactAtCall)
       /\ exit_code' = Some(1)
       /\ yielded' = yielded

C1_TableInjective ==
  /\ [](C1_Registered /\ C1_Distinct)
  /\ [][C1_AppendOnly /\ C1_CollisionRaises]_vars

\* A run that registered a contact and then aborted on a colliding one.
C1_Witness ==
  /\ pc = "failed"
  /\ stderr.kind = "collision"
  /\ stderr.values[1] # stderr.values[2]
  /\ ANONYMIZED_VALUES[blake2b(stderr.values[2])] = stderr.values[1]

\* C2: a failed run has written nothing to standard output, and whatever is
\* written is written after every member was parsed, the records sorted
\* and the stats check passed.
C2_NoPartialCsv ==
  /\ pc = "failed" => stdout = << >>
  /\ stdout # << >> =>
       /\ pc \in {"write_rows", "done", "exited"}
       /\ index > Len(archive)
       /\ Len(yielded) = Len(MatchedMembers(archive))
       /\ Len(calls) = Len(yielded)
       /\ ClassTotal = CONTACT_STATS["total"]
       /\ stderr = NoError
       /\ stdout[1] = HeaderRow

\* A run that failed after a record had been parsed.
C2_Witness == pc = "failed" /\ Len(yielded) >= 1 /\ stdout = << >>

\* C3: the class counters always sum to the total, the stats check never
\* fails, and each call of format_contact, a call that raises the collision
\* error included, adds one to the total and one to exactly one class counter.
C3_SumIsTotal == ClassTotal = CONTACT_STATS["total"] /\ stderr.kind # "stats"

C3_OnePerCall ==
  /\ AtCall =>
       /\ CONTACT_STATS'["total"] = CONTACT_STATS["total"] + 1
       /\ \E k \in {"missing", "numbers", "names"} :
            /\ CONTACT_STATS'[k] = CONTACT_STATS[k] + 1
            /\ \A j \in {"missing", "numbers", "names"} \ {k} :
                 CONTACT_STATS'[j] = CONTACT_STATS[j]
  /\ ~AtCall => CONTACT_STATS' = CONTACT_STATS

C3_StatsInvariant == []C3_SumIsTotal /\ [][C3_OnePerCall]_vars

\* A call that aborted on a collision was counted.
C3_Witness ==
  /\ pc = "failed"
  /\ stderr.kind = "collision"
  /\ CONTACT_STATS["total"] = Len(yielded) + 1
  /\ ClassTotal = CONTACT_STATS["total"]

\* The original statement of C4: a number gets an identifier and no name, a
\* name gets an identifier and itself as the name, an empty contact gets
\* neither.
C4_AsClaimed ==
  \A n \in 1..Len(yielded) :
    LET call == yielded[n] IN
      /\ IsNumber(call.contact) =>
           call.contact_id # None /\ call.contact_name = None
      /\ (~IsNumber(call.contact) /\ call.contact # << >>) =>
           call.contact_id # None /\ call.contact_name = Some(call.contact)
      /\ call.contact = << >> =>
           call.contact_id = None /\ call.contact_name = None

\* C4, amended: a number gets an identifier and no name; a name gets an
\* identifier and itself as the name; an empty contact gets no identifier and
\* the empty string itself as the name, which the CSV shows as the same empty
\* cell as a missing name.
C4_ContactFields ==
  \A n \in 1..Len(yielded) :
    LET call == yielded[n] IN
      /\ IsNumber(call.contact) =>
           call.contact_id = Some(blake2b(call.contact)) /\ call.contact_name = None
      /\ (~IsNumber(call.contact) /\ call.contact # << >>) =>
           /\ call.contact_id = Some(blake2b(call.contact))
           /\ call.contact_name = Some(call.contact)
      /\ call.contact = << >> =>
           /\ call.contact_id = None
           /\ call.contact_name = Some(<< >>)
           /\ Cell(call.contact_name) = Cell(None)

\* A record of a number beside a record of an empty contact.
C4_Witness ==
  \E m, n \in 1..Len(yielded) :
    /\ IsNumber(yielded[m].contact)
    /\ yielded[n].contact = << >>

HasDurationText(xml) == xml.duration # None /\ xml.duration[1].text # None

HasDatedThread(xml) ==
  /\ xml.messages # << >>
  /\ xml.messages[1].dt # None
  /\ xml.messages[Len(xml.messages)].dt # None

\* The original statement of C5: no record has both a call duration and
\* message fields.
C5_AsClaimed ==
  \A n \in 1..Len(yielded) :
    ~(/\ yielded[n].call_duration # None
      /\ (yielded[n].message_days # None \/ yielded[n].message_count # None))

\* C5, amended: message_days and message_count are present together or not at
\* all, and a record has both a call duration and message fields exactly when
\* the member's markup holds both a duration element with text and message
\* elements of which the first and the last carry a timestamp; every other
\* record is a call, a message thread or neither.
C5_CallOrThread ==
  \A n \in 1..Len(yielded) :
    LET call == yielded[n]
        xml == MemberOf(n).content.xml
    IN /\ call.message_days = None <=> call.message_count = None
       /\ call.call_duration # None <=> HasDurationText(xml)
       /\ call.message_count # None <=> HasDatedThread(xml)
       /\ (call.call_duration # None /\ call.message_count # None)
            <=> (HasDurationText(xml) /\ HasDatedThread(xml))

\* A record with a call duration and message fields.
C5_Witness ==
  \E n \in 1..Len(yielded) :
    /\ yielded[n].call_duration # None
    /\ yielded[n].message_days # None
    /\ yielded[n].message_count = Some(Len(MemberOf(n).content.xml.messages))

\* Once parse_takeout has returned.
Returned == pc \in {"write_header", "write_rows", "done", "exited"}

Injections(n) == {p \in [1..n -> 1..n] : \A a, b \in 1..n : p[a] = p[b] => a = b}

\* C6: the returned list holds one record for each matching member and none
\* for the others; it is in ascending order of the formatted timestamps, and
\* records of equal timestamps keep the order of their filenames; the CSV
\* rows of a finished run are the rows of that list in that order.
C6_SortedRecords ==
  /\ Returned =>
       /\ Len(yielded) = Len(MatchedMembers(archive))
       /\ \A n \in 1..Len(yielded) :
            /\ yielded[n].filename = MemberOf(n).name
            /\ Matches(yielded[n].filename)
            /\ yielded[n].timestamp
                 = format_timestamp(GroupDict(MemberOf(n).name).timestamp)
       /\ Len(calls) = Len(yielded)
       /\ \E p \in Injections(Len(calls)) :
            /\ \A n \in 1..Len(calls) : calls[n] = yielded[p[n]]
            /\ \A m, n \in 1..Len(calls) :
                 m < n =>
                   /\ ~StrLess(calls[n].timestamp, calls[m].timestamp)
                   /\ calls[m].timestamp = calls[n].timestamp => p[m] < p[n]
  /\ pc = "done" =>
       /\ Len(stdout) = Len(calls) + 1
       /\ \A n \in 1..Len(calls) : stdout[n + 1] = Row(calls[n])

\* A finished run whose sort moved the later filename's record to the front.
C6_Witness ==
  /\ pc = "done"
  /\ Len(calls) = 2
  /\ calls[1] = yielded[2]
  /\ calls[1] # yielded[1]
  /\ StrLess(calls[1].timestamp, calls[2].timestamp)

\* An element that is there without a title attribute.
Untitled(found) == found # None /\ found[1].title = None

\* An element that is there with no title that fromisoformat accepts.
Unparseable(found) == found # None /\ ~IsIsoFormat(GetTitle(found[1]))

\* The elements whose title parse_file reads: the published element and the
\* dt elements of the first and of the last message.
LacksTitle(xml) ==
  \/ Untitled(xml.published)
  \/ /\ xml.messages # << >>
     /\ \/ Untitled(xml.messages[1].dt)
        \/ Untitled(xml.messages[Len(xml.messages)].dt)

BadTimestamp(xml) ==
  \/ Unparseable(xml.published)
  \/ /\ xml.messages # << >>
     /\ \/ Unparseable(xml.messages[1].dt)
        \/ Unparseable(xml.messages[Len(xml.messages)].dt)

\* The run aborted while it parsed a member, and that member.
ParseFailed == pc = "failed" /\ index <= Len(archive)

FailedMember == archive[index]

\* The original statement of C7: an element without its title attribute is
\* no error.
C7_AsClaimed ==
  (ParseFailed /\ LacksTitle(FailedMember.content.xml))
    => stderr # TimestampError(<< >>)

\* C7, amended: when a published element, or the dt element of the first or
\* of the last message, is there without its title attribute, the title is
\* read as the empty string, fromisoformat raises and the run aborts with a
\* timestamp parse failure; no record is made from such a member.
C7_MissingTitleAborts ==
  /\ \A n \in 1..Len(yielded) : ~LacksTitle(MemberOf(n).content.xml)
  /\ (ParseFailed /\ stderr = TimestampError(<< >>)) =>
       /\ LacksTitle(FailedMember.content.xml)
       /\ ~ParseError(FailedMember.content.markup)
       /\ exit_code = Some(1)
  /\ (ParseFailed /\ LacksTitle(FailedMember.content.xml)) =>
       stderr.kind \in {"collision", "markup", "timestamp"}

\* A run that aborted on a message's dt element without a title.
C7_Witness ==
  /\ ParseFailed
  /\ stderr = TimestampError(<< >>)
  /\ FailedMember.content.xml.published = None
  /\ LacksTitle(FailedMember.content.xml)

Mentions(error, filename) == \E n \in 1..Len(error.paths) : error.paths[n] = filename

\* The original statement of C8: the message of a markup parse failure and of
\* a timestamp parse failure names the member.
C8_AsClaimed ==
  (ParseFailed /\ stderr.kind \in {"markup", "timestamp"})
    => Mentions(stderr, FailedMember.name)

\* C8, amended: a markup parse failure and a timestamp parse failure on a
\* matched member both abort the run; the message of the markup failure names
\* the member, the message of the timestamp failure holds the text that did
\* not parse and names no member.
C8_ParseFailures ==
  /\ \A n \in 1..Len(yielded) :
       /\ ~ParseError(MemberOf(n).content.markup)
       /\ ~BadTimestamp(MemberOf(n).content.xml)
  /\ (ParseFailed /\ stderr.kind = "markup") =>
       /\ ParseError(FailedMember.content.markup)
       /\ stderr.paths = <<FailedMember.name>>
       /\ exit_code = Some(1)
  /\ (ParseFailed /\ stderr.kind = "timestamp") =>
       /\ BadTimestamp(FailedMember.content.xml)
       /\ ~IsIsoFormat(stderr.text)
       /\ stderr.paths = << >>
       /\ exit_code = Some(1)

\* A run that aborted on a title that is no timestamp.
C8_Witness ==
  /\ ParseFailed
  /\ stderr.kind = "timestamp"
  /\ stderr.text # << >>
  /\ ~Mentions(stderr, FailedMember.name)

C10_ArchiveScope ==
  /\ opens <= 1
  /\ opens = 0 <=> pc = "start"
  /\ opened <=> pc = "parse_calls"
  /\ Terminal => (~opened /\ opens = 1)
  /\ stderr.kind # "closed"
  /\ (~opened /\ opens = 1 /\ pc # "failed") =>
       /\ index > Len(archive)
       /\ Len(yielded) = Len(MatchedMembers(archive))

\* A run that aborted at its second member, the handle released.
C10_Witness ==
  /\ pc = "failed"
  /\ index = 2
  /\ Len(yielded) = 1
  /\ ~opened
  /\ opens = 1

\* The contacts format_contact has passed to anonymize so far: the non-empty
\* contacts of the matching members up to the one being parsed, the member
\* at which the run aborted included.
RECURSIVE NonEmptyContacts(_)
NonEmptyContacts(members) ==
  IF members = << >> THEN << >>
  ELSE LET contact == GroupDict(Head(members).name).contact
       IN (IF contact # << >> THEN <<contact>> ELSE << >>)
            \o NonEmptyContacts(Tail(members))

Called ==
  NonEmptyContacts(MatchedMembers(
    SubSeq(archive, 1, IF ParseFailed THEN index ELSE index - 1)))

\* A run of calls: the table, the cache, the identifiers returned so far as
\* pairs <<string, identifier>>, and whether a call raised, which ends the run.
NoCalls == [table |-> << >>, cache |-> << >>, ids |-> {}, aborted |-> FALSE]

\* One call of anonymize, through the cache.
CallCached(run, value) ==
  LET a == anonymize(run.table, run.cache, value)
  IN IF run.aborted THEN run
     ELSE [table   |-> a.table,
           cache   |-> a.cache,
           ids     |-> IF a.raised THEN run.ids ELSE run.ids \cup {<<value, a.digest>>},
           aborted |-> a.raised]

\* One call of anonymize with nothing cached: the body is computed again.
CallRecomputed(run, value) ==
  LET b == anonymize_body(run.table, value)
  IN IF run.aborted THEN run
     ELSE [table   |-> b.table,
           cache   |-> << >>,
           ids     |-> IF b.raised THEN run.ids ELSE run.ids \cup {<<value, b.digest>>},
           aborted |-> b.raised]

RECURSIVE AnonymizeAll(_)
AnonymizeAll(values) ==
  IF values = << >> THEN NoCalls
  ELSE CallCached(AnonymizeAll(SubSeq(values, 1, Len(values) - 1)),
                  values[Len(values)])

RECURSIVE RecomputeAll(_)
RecomputeAll(values) ==
  IF values = << >> THEN NoCalls
  ELSE CallRecomputed(RecomputeAll(SubSeq(values, 1, Len(values) - 1)),
                      values[Len(values)])

Range(values) == {values[n] : n \in 1..Len(values)}

\* The sequences of calls that see the same set of distinct strings, in any
\* order and with repeats, up to one call more.
SameStrings(values) ==
  {other \in UNION {[1..n -> Range(values)] : n \in 0..(Len(values) + 1)} :
     Range(other) = Range(values)}

\* No string was given two identifiers.
OneIdEach(ids) == \A a, b \in ids : a[1] = b[1] => a[2] = b[2]

\* C11: a string gets the same identifier at every call of a run, and over
\* all runs that see the same set of distinct strings, in whatever order and
\* whether the results come from the cache or are computed again, the runs
\* abort on a collision or none does, no string gets two identifiers, and the
\* runs that do not abort end with the same identifiers and the same table.
C11_OrderIndependent ==
  LET run == AnonymizeAll(Called) IN
    /\ run.table = ANONYMIZED_VALUES
    /\ run.cache = cache
    /\ run.aborted = (pc = "failed" /\ stderr.kind = "collision")
    /\ OneIdEach(run.ids)
    /\ \A n \in 1..Len(yielded) :
         yielded[n].contact # << >> =>
           <<yielded[n].contact, yielded[n].contact_id[1]>> \in run.ids
    /\ Terminal =>
         \A other \in SameStrings(Called) :
           \A alt \in {AnonymizeAll(other), RecomputeAll(other)} :
             /\ alt.aborted = run.aborted
             /\ OneIdEach(alt.ids \cup run.ids)
             /\ ~run.aborted => (alt.ids = run.ids /\ alt.table = run.table)

\* A finished run that anonymized one string twice, the second time from the
\* cache.
C11_Witness ==
  /\ pc = "done"
  /\ Len(Called) = 2
  /\ Called[1] = Called[2]
  /\ Len(cache) = 1
  /\ yielded[1].contact_id = yielded[2].contact_id

\* The datetime of a message's dt element.
MessageTime(message) == fromisoformat(GetTitle(message.dt[1]))

\* C12: a record made from a thread whose first message is not later than
\* its last has message_days equal to the whole days between the two
\* instants, rounded down and never negative (0 for less than a day),
\* message_count equal to the number of message elements, and the date and
\* time of the first message.
C12_ThreadFields ==
  \A n \in 1..Len(yielded) :
    LET call == yielded[n]
        messages == MemberOf(n).content.xml.messages
        first == MessageTime(messages[1])
        last == MessageTime(messages[Len(messages)])
        span == UtcMinutes(last) - UtcMinutes(first)
    IN (HasDatedThread(MemberOf(n).content.xml) /\ span >= 0) =>
         /\ call.message_days # None
         /\ call.message_days[1] >= 0
         /\ call.message_days[1] * 1440 <= span
         /\ span < (call.message_days[1] + 1) * 1440
         /\ span < 1440 => call.message_days = Some(0)
         /\ call.message_count = Some(Len(messages))
         /\ call.date = Some(<<GetTitle(messages[1].dt[1])[1]>>)
         /\ call.time = format_datetime(Some(first)).time

\* A thread of three messages that spans a day and a half, and a thread that
\* passes midnight within three hours.
C12_Witness ==
  \E m, n \in 1..Len(yielded) :
    /\ yielded[m].message_days = Some(1)
    /\ yielded[m].message_count = Some(3)
    /\ yielded[n].message_days = Some(0)
    /\ yielded[n].message_count = Some(2)
    /\ yielded[n].date = Some(<<"2020-06-22">>)

\* The separators of the stem of a filename that ends with its only ".html".
StemSeps(f) == {i \in SepAt(f) : i < Len(f)}

EndsWithHtml(f) == HtmlAt(f) = {Len(f)}

\* The original statement of C13: of more than two separators, the contact
\* ends at the first, the timestamp starts after the last and the type is
\* all that lies between.
C13_AsClaimed ==
  \A n \in 1..Len(yielded) :
    LET call == yielded[n]
        f == call.filename
        first == Least(StemSeps(f))
        last == Greatest(StemSeps(f))
    IN (EndsWithHtml(f) /\ Cardinality(StemSeps(f)) > 2) =>
         /\ call.contact = SubSeq(f, 4, first - 1)
         /\ call.type = SubSeq(f, first + 1, last - 1)
         /\ call.timestamp = format_timestamp(SubSeq(f, last + 1, Len(f) - 1))

\* C13, amended: the three groups are all matched non-greedily and the match
\* is not anchored at the end.  The contact is the text before the first
\* separator, the type the text from there to the next separator that leaves
\* it non-empty, and the timestamp all that follows that separator up to the
\* first ".html" that leaves it non-empty, further separators included.
C13_LazySplit ==
  \A n \in 1..Len(yielded) :
    LET call == yielded[n]
        f == call.filename
        first == Least(SepAt(f))
        second == Least({j \in SepAt(f) : j > first + 1})
        html == Least({k \in HtmlAt(f) : k > second + 1})
    IN /\ HasPrefix(f)
       /\ call.directory = <<f[2]>>
       /\ call.contact = SubSeq(f, 4, first - 1)
       /\ call.type = SubSeq(f, first + 1, second - 1)
       /\ call.timestamp = format_timestamp(SubSeq(f, second + 1, html - 1))

\* A record of a filename with three separators: the type stops at the
\* second and the timestamp holds the third.
C13_Witness ==
  \E n \in 1..Len(yielded) :
    /\ Cardinality(StemSeps(yielded[n].filename)) = 3
    /\ yielded[n].type = <<"Group">>
    /\ yielded[n].timestamp = <<"Text", SEP>> \o format_timestamp(TsLate)

====
